---- MODULE Spec2Model ----
(***************************************************************************)
(* A model of msrapi.MSRAPi, the client binding of the MotorsportReg REST  *)
(* API (src/msrapi/__init__.py).                                            *)
(*                                                                         *)
(* A client is a record of four attributes.  Every public method is one    *)
(* action: it formats a URL, hands exactly one request to the transport    *)
(* (the requests library), and returns the decoded JSON body, or for       *)
(* pr_post_logbook_entry the response object itself.  The transport is the *)
(* environment: it either fails to connect or answers with a status and a  *)
(* body.  Per client the model records the call made last, the requests    *)
(* handed to the transport during that call, what the transport answered   *)
(* and how the call ended, and it counts the calls made and the requests   *)
(* handed to the transport since construction.                             *)
(***************************************************************************)
EXTENDS Integers, Sequences, FiniteSets, TLC

VARIABLES self, ctor, call, sent, got, result, ncalls, nsent

vars == <<self, ctor, call, sent, got, result, ncalls, nsent>>

\* the number of calls the model follows an instance for
MaxCalls == 2

(***************************************************************************)
(* Python values.  A flag argument is any Python object; the model keeps   *)
(* its type and its integer value (bool is a subclass of int, True == 1).  *)
(***************************************************************************)
PyTrue == [t |-> "bool", v |-> 1]
PyFalse == [t |-> "bool", v |-> 0]
PyNone == [t |-> "NoneType", v |-> 0]
PyOne == [t |-> "int", v |-> 1]
PyZero == [t |-> "int", v |-> 0]
\* the argument is left out of the call, so the parameter takes its default
Omitted == [t |-> "omitted", v |-> 0]

\* `x is True`: identity with the singleton True
IsTrue(x) == x = PyTrue

\* `x is False`: identity with the singleton False
IsFalse(x) == x = PyFalse

\* a keyword parameter with default d
Default(x, d) == IF x = Omitted THEN d ELSE x

\* "{n}".format(..., x, ...) of an int: str(x)
Str(x) == ToString(x)

(***************************************************************************)
(* Inputs.                                                                  *)
(***************************************************************************)
\* the two client instances of the pair specification; Spec uses the first
Clients == {1, 2}

\* constructor arguments (organization_id, username, password)
CtorArgs == { <<"1234", "alice", "s3cret">>, <<"42", "bob", "hunter2">> }

\* path parameters (event, member, vehicle, ... ids), and segment ids
IdVals == {7, 42}
SegmentVals == {3}

\* values a caller may pass for an include_* flag
FlagVals == {PyTrue, PyFalse, PyNone, PyOne, PyZero}

\* the flag of a one-flag method: a value, or left out
OneFlag(F) == F \cup {Omitted}

\* the flags of a two-flag method: two values, or one or both left out
TwoFlags(F) ==
    (F \X F) \cup {<<Omitted, Omitted>>, <<Omitted, PyFalse>>, <<PyFalse, Omitted>>}

\* a JSON object with integer members, as the sequence of its (key, value) items
Payloads == { << <<"memberId", 7>>, <<"typeId", 2>> >>, << <<"typeId", 3>> >>, << >> }

\* the documents the service may answer with
JsonDocs == { << <<"error", 404>> >>, << <<"id", 42>>, <<"n", 2>> >> }

(***************************************************************************)
(* JSON text.                                                               *)
(***************************************************************************)
RECURSIVE JsonItems(_, _, _)
\* the members of an object, joined by item_sep, key and value by key_sep
JsonItems(obj, item_sep, key_sep) ==
    IF obj = << >> THEN ""
    ELSE LET member == "\"" \o Head(obj)[1] \o "\"" \o key_sep \o Str(Head(obj)[2])
         IN  IF Len(obj) = 1 THEN member
             ELSE member \o item_sep \o JsonItems(Tail(obj), item_sep, key_sep)

\* json.dumps(obj) with the default separators (', ', ': ')
JsonDumps(obj) == "{" \o JsonItems(obj, ", ", ": ") \o "}"

\* the same document as a service writes it, without white space
JsonCompact(obj) == "{" \o JsonItems(obj, ",", ":") \o "}"

\* whether text is one of the JSON texts of document d
IsJsonOf(text, d) == text = JsonDumps(d) \/ text = JsonCompact(d)

\* Response.json() on a body: the decoded document, or ValueError when the body is
\* not JSON
JsonLoads(text) ==
    IF \E d \in JsonDocs : IsJsonOf(text, d)
    THEN [ok |-> TRUE, doc |-> CHOOSE d \in JsonDocs : IsJsonOf(text, d)]
    ELSE [ok |-> FALSE, doc |-> << >>]

(***************************************************************************)
(* The transport: what requests.get / requests.post may do with a request. *)
(***************************************************************************)
\* the connection fails: requests raises ConnectionError and there is no response
ConnectionFailure == [ok |-> FALSE, status_code |-> 0, encoding |-> "", text |-> ""]

\* a response object: status, the encoding requests guessed, the body
Response(status_code, encoding, text) ==
    [ok |-> TRUE, status_code |-> status_code, encoding |-> encoding, text |-> text]

Transport ==
    { ConnectionFailure,
      Response(200, "utf-8", JsonDumps(<< <<"id", 42>>, <<"n", 2>> >>)),
      Response(404, "ISO-8859-1", JsonCompact(<< <<"error", 404>> >>)),
      Response(200, "ISO-8859-1", "<html>busy</html>") }

\* before any call
NoAnswer == [ok |-> FALSE, status_code |-> -1, encoding |-> "", text |-> ""]

(***************************************************************************)
(* Requests and results.                                                    *)
(***************************************************************************)
\* requests.auth.HTTPBasicAuth(username, password)
HTTPBasicAuth(username, password) == <<username, password>>

\* requests.get(url) / requests.get(url, auth=..., headers=...) /
\* requests.post(url, auth=..., headers=..., data=...)
Request(method, url, auth, headers, data) ==
    [method |-> method, url |-> url, auth |-> auth, headers |-> headers, data |-> data]

\* a call returns a decoded JSON value
ReturnJson(doc) == [kind |-> "return", exc |-> "", json |-> <<doc>>, resp |-> << >>]

\* a call returns the response object
ReturnResponse(r) == [kind |-> "return", exc |-> "", json |-> << >>, resp |-> <<r>>]

\* a call ends with an exception propagated to the caller
Raise(exc) == [kind |-> "raise", exc |-> exc, json |-> << >>, resp |-> << >>]

NoResult == [kind |-> "none", exc |-> "", json |-> << >>, resp |-> << >>]

NoCall == [op |-> "__init__", ids |-> << >>, flags |-> << >>, payload |-> << >>]

Call(op, ids, flags, payload) == [op |-> op, ids |-> ids, flags |-> flags, payload |-> payload]

(***************************************************************************)
(* The client.                                                              *)
(***************************************************************************)
url_prefix == "https://api.motorsportreg.com/rest/"

\* MSRAPi.__init__
MSRAPi(organization_id, username, password) ==
    [organization_id |-> organization_id, username |-> username,
     password |-> password, url_prefix |-> url_prefix]

\* attrs_after, had public_calendar kept its argument: self.organization_id = organization_id
attrs_after_stores_org(s, op, ids) ==
    IF op = "public_calendar" THEN [s EXCEPT !.organization_id = Str(ids[1])] ELSE s

\* attrs_after, had pr_post_logbook_entry built its resource in place:
\* self.url_prefix += "logbooks.json"
attrs_after_prefix_grows(s, op, ids) ==
    IF op = "pr_post_logbook_entry"
    THEN [s EXCEPT !.url_prefix = s.url_prefix \o "logbooks.json"]
    ELSE s

\* the attributes of the instance after method op has run with path parameters ids:
\* no method assigns an attribute
attrs_after(s, op, ids) == s

\* _public_request: the request handed to requests.get
public_request(s, rest_resource) == Request("GET", rest_resource, << >>, {}, << >>)

\* authenticated_request without the headers argument
authenticated_request_no_org(s, rest_resource) ==
    Request("GET", rest_resource, HTTPBasicAuth(s.username, s.password), {}, << >>)

\* _authenticated_request: the request handed to requests.get
authenticated_request(s, rest_resource) ==
    Request("GET", rest_resource, HTTPBasicAuth(s.username, s.password),
            {<<"X-Organization-Id", s.organization_id>>}, << >>)

\* get_attempts, had the dispatch tried again after a failed connection
get_attempts_retry(req, t) == IF t.ok THEN <<req>> ELSE <<req, req>>

\* the requests a dispatch primitive hands to the transport when the transport
\* answers t: one requests.get, whatever the answer
get_attempts(req, t) == <<req>>

\* get_result, had the dispatch returned r instead of r.json()
get_result_raw(t) ==
    IF ~t.ok THEN Raise("ConnectionError")
    ELSE ReturnResponse([t EXCEPT !.encoding = "utf-8"])

\* get_result, had the dispatch called r.raise_for_status() before r.json()
get_result_raise_for_status(t) ==
    IF ~t.ok THEN Raise("ConnectionError")
    ELSE IF t.status_code >= 400 THEN Raise("HTTPError")
    ELSE LET decoded == JsonLoads(t.text)
         IN  IF decoded.ok THEN ReturnJson(decoded.doc) ELSE Raise("ValueError")

\* _public_request / _authenticated_request from the transport's answer on:
\* r.encoding = "utf-8"; return r.json()
get_result(t) ==
    IF ~t.ok THEN Raise("ConnectionError")
    ELSE LET r == [t EXCEPT !.encoding = "utf-8"]
             decoded == JsonLoads(r.text)
         IN  IF decoded.ok THEN ReturnJson(decoded.doc) ELSE Raise("ValueError")

\* pr_post_logbook_entry: the request handed to requests.post
post_request(s, resource, payload) ==
    Request("POST", resource, HTTPBasicAuth(s.username, s.password),
            {<<"X-Organization-Id", s.organization_id>>,
             <<"content-type", "application/vnd.pukkasoft+json">>},
            <<JsonDumps(payload)>>)

\* the requests pr_post_logbook_entry hands to the transport when the transport
\* answers t: one requests.post, whatever the answer
post_attempts(req, t) == <<req>>

\* post_result, had the method returned r.json() like the read methods
post_result_decoded(t) ==
    IF ~t.ok THEN Raise("ConnectionError")
    ELSE LET decoded == JsonLoads(t.text)
         IN  IF decoded.ok THEN ReturnJson(decoded.doc) ELSE Raise("ValueError")

\* pr_post_logbook_entry from the transport's answer on: return r
post_result(t) == IF ~t.ok THEN Raise("ConnectionError") ELSE ReturnResponse(t)

(***************************************************************************)
(* The resource each method formats.                                        *)
(***************************************************************************)
public_calendar_resource(s, organization_id) ==
    s.url_prefix \o "calendars/organization/" \o Str(organization_id) \o ".json"

pr_calendar_resource(s) ==
    s.url_prefix \o "calendars.json"

pr_venue_calendar_resource(s, venue_id) ==
    s.url_prefix \o "calendars/venue/" \o Str(venue_id) \o ".json"

pr_calendar_by_type_resource(s, type_id) ==
    s.url_prefix \o "calendars/type/" \o Str(type_id) \o ".json"

pr_event_segments_resource(s, event_id) ==
    s.url_prefix \o "events/" \o Str(event_id) \o "/segments.json"

pr_members_resource(s) ==
    s.url_prefix \o "members.json"

pr_profile_resource(s, profile_id) ==
    s.url_prefix \o "profiles/" \o Str(profile_id) \o ".json"

pr_member_vehicles_resource(s, member_id) ==
    s.url_prefix \o "members/" \o Str(member_id) \o "/vehicles.json"

\* pr_member_vehicle_resource with the format arguments in the wrong order
pr_member_vehicle_resource_swapped(s, member_id, vehicle_id) ==
    s.url_prefix \o "members/" \o Str(vehicle_id) \o "/vehicles/" \o Str(member_id) \o ".json"

pr_member_vehicle_resource(s, member_id, vehicle_id) ==
    s.url_prefix \o "members/" \o Str(member_id) \o "/vehicles/" \o Str(vehicle_id) \o ".json"

pr_member_logbook_resource(s, member_id) ==
    s.url_prefix \o "members/" \o Str(member_id) \o "/logbook.json"

pr_logbook_types_resource(s) ==
    s.url_prefix \o "logbooks/types.json"

pr_get_logbook_entry_resource(s, logbook_entry_id) ==
    s.url_prefix \o "logbooks/" \o Str(logbook_entry_id) \o ".json"

pr_post_logbook_entry_resource(s) ==
    s.url_prefix \o "logbooks.json"

pr_attendees_resource(s, event_id, include_questions) ==
    IF IsTrue(include_questions)
    THEN s.url_prefix \o "events/" \o Str(event_id) \o "/attendees.json?fields=questions"
    ELSE s.url_prefix \o "events/" \o Str(event_id) \o "/attendees.json"

\* pr_assignments_resource with the two fields joined in the other order
pr_assignments_resource_swapped(s, event_id, include_instructors, include_team) ==
    IF IsTrue(include_instructors) /\ IsTrue(include_team)
    THEN s.url_prefix \o "events/" \o Str(event_id) \o "/assignments.json?fields=team,instructors"
    ELSE IF IsTrue(include_instructors) /\ IsFalse(include_team)
    THEN s.url_prefix \o "events/" \o Str(event_id) \o "/assignments.json?fields=instructors"
    ELSE IF IsFalse(include_instructors) /\ IsTrue(include_team)
    THEN s.url_prefix \o "events/" \o Str(event_id) \o "/assignments.json?fields=team"
    ELSE s.url_prefix \o "events/" \o Str(event_id) \o "/assignments.json"

pr_assignments_resource(s, event_id, include_instructors, include_team) ==
    IF IsTrue(include_instructors) /\ IsTrue(include_team)
    THEN s.url_prefix \o "events/" \o Str(event_id) \o "/assignments.json?fields=instructors,team"
    ELSE IF IsTrue(include_instructors) /\ IsFalse(include_team)
    THEN s.url_prefix \o "events/" \o Str(event_id) \o "/assignments.json?fields=instructors"
    ELSE IF IsFalse(include_instructors) /\ IsTrue(include_team)
    THEN s.url_prefix \o "events/" \o Str(event_id) \o "/assignments.json?fields=team"
    ELSE s.url_prefix \o "events/" \o Str(event_id) \o "/assignments.json"

pr_assignments_by_segment_resource(s, event_id, segment_id, include_instructors, include_team) ==
    IF IsTrue(include_instructors) /\ IsTrue(include_team)
    THEN s.url_prefix \o "events/" \o Str(event_id) \o "/segments/" \o Str(segment_id)
             \o "/assignments.json?fields=instructors,team"
    ELSE IF IsTrue(include_instructors) /\ IsFalse(include_team)
    THEN s.url_prefix \o "events/" \o Str(event_id) \o "/segments/" \o Str(segment_id)
             \o "/assignments.json?fields=instructors"
    ELSE IF IsFalse(include_instructors) /\ IsTrue(include_team)
    THEN s.url_prefix \o "events/" \o Str(event_id) \o "/segments/" \o Str(segment_id)
             \o "/assignments.json?fields=team"
    ELSE s.url_prefix \o "events/" \o Str(event_id) \o "/segments/" \o Str(segment_id)
             \o "/assignments.json"

pr_member_resource(s, member_id, include_questions, include_history) ==
    IF IsTrue(include_questions) /\ IsTrue(include_history)
    THEN s.url_prefix \o "members/" \o Str(member_id) \o ".json?fields=questions,history"
    ELSE IF IsTrue(include_questions) /\ IsFalse(include_history)
    THEN s.url_prefix \o "members/" \o Str(member_id) \o ".json?fields=questions"
    ELSE IF IsFalse(include_questions) /\ IsTrue(include_history)
    THEN s.url_prefix \o "members/" \o Str(member_id) \o ".json?fields=history"
    ELSE s.url_prefix \o "members/" \o Str(member_id) \o ".json"

(***************************************************************************)
(* The methods.  A call is one step: the method formats its resource, the  *)
(* dispatch hands the request to the transport, the transport answers with *)
(* t, and the call returns or raises.                                      *)
(***************************************************************************)
\* what a call leaves behind: the observation of the call and the instance
Finish(c, op, ids, flags, payload, attempts, t, res) ==
    /\ ncalls[c] < MaxCalls
    /\ ncalls' = [ncalls EXCEPT ![c] = @ + 1]
    /\ nsent' = [nsent EXCEPT ![c] = @ + Len(attempts)]
    /\ call' = [call EXCEPT ![c] = Call(op, ids, flags, payload)]
    /\ sent' = [sent EXCEPT ![c] = attempts]
    /\ got' = [got EXCEPT ![c] = t]
    /\ result' = [result EXCEPT ![c] = res]
    /\ self' = [self EXCEPT ![c] = attrs_after(self[c], op, ids)]
    /\ UNCHANGED ctor

\* response = self._public_request(resource); return response
ViaPublic(c, op, ids, flags, resource, t) ==
    Finish(c, op, ids, flags, << >>, get_attempts(public_request(self[c], resource), t), t,
           get_result(t))

\* response = self._authenticated_request(resource); return response
ViaAuthenticated(c, op, ids, flags, resource, t) ==
    Finish(c, op, ids, flags, << >>, get_attempts(authenticated_request(self[c], resource), t), t,
           get_result(t))

public_calendar(c, Ids, Ts) ==
    \E organization_id \in Ids, t \in Ts :
        ViaPublic(c, "public_calendar", <<organization_id>>, << >>,
            public_calendar_resource(self[c], organization_id), t)

pr_calendar(c, Ts) ==
    \E t \in Ts :
        ViaAuthenticated(c, "pr_calendar", << >>, << >>, pr_calendar_resource(self[c]), t)

pr_venue_calendar(c, Ids, Ts) ==
    \E venue_id \in Ids, t \in Ts :
        ViaAuthenticated(c, "pr_venue_calendar", <<venue_id>>, << >>,
            pr_venue_calendar_resource(self[c], venue_id), t)

pr_calendar_by_type(c, Ids, Ts) ==
    \E type_id \in Ids, t \in Ts :
        ViaAuthenticated(c, "pr_calendar_by_type", <<type_id>>, << >>,
            pr_calendar_by_type_resource(self[c], type_id), t)

pr_event_segments(c, Ids, Ts) ==
    \E event_id \in Ids, t \in Ts :
        ViaAuthenticated(c, "pr_event_segments", <<event_id>>, << >>,
            pr_event_segments_resource(self[c], event_id), t)

pr_members(c, Ts) ==
    \E t \in Ts :
        ViaAuthenticated(c, "pr_members", << >>, << >>, pr_members_resource(self[c]), t)

pr_profile(c, Ids, Ts) ==
    \E profile_id \in Ids, t \in Ts :
        ViaAuthenticated(c, "pr_profile", <<profile_id>>, << >>,
            pr_profile_resource(self[c], profile_id), t)

pr_member_vehicles(c, Ids, Ts) ==
    \E member_id \in Ids, t \in Ts :
        ViaAuthenticated(c, "pr_member_vehicles", <<member_id>>, << >>,
            pr_member_vehicles_resource(self[c], member_id), t)

pr_member_vehicle(c, Ids, Ts) ==
    \E member_id, vehicle_id \in Ids, t \in Ts :
        ViaAuthenticated(c, "pr_member_vehicle", <<member_id, vehicle_id>>, << >>,
            pr_member_vehicle_resource(self[c], member_id, vehicle_id), t)

pr_member_logbook(c, Ids, Ts) ==
    \E member_id \in Ids, t \in Ts :
        ViaAuthenticated(c, "pr_member_logbook", <<member_id>>, << >>,
            pr_member_logbook_resource(self[c], member_id), t)

pr_logbook_types(c, Ts) ==
    \E t \in Ts :
        ViaAuthenticated(c, "pr_logbook_types", << >>, << >>, pr_logbook_types_resource(self[c]), t)

pr_get_logbook_entry(c, Ids, Ts) ==
    \E logbook_entry_id \in Ids, t \in Ts :
        ViaAuthenticated(c, "pr_get_logbook_entry", <<logbook_entry_id>>, << >>,
            pr_get_logbook_entry_resource(self[c], logbook_entry_id), t)

pr_attendees(c, Ids, F1, Ts) ==
    \E event_id \in Ids, include_questions \in F1, t \in Ts :
        ViaAuthenticated(c, "pr_attendees", <<event_id>>, <<include_questions>>,
            pr_attendees_resource(self[c], event_id, Default(include_questions, PyTrue)), t)

pr_assignments(c, Ids, F2, Ts) ==
    \E event_id \in Ids, flags \in F2, t \in Ts :
      LET include_instructors == flags[1]
          include_team == flags[2]
      IN
        ViaAuthenticated(c, "pr_assignments", <<event_id>>,
            <<include_instructors, include_team>>,
            pr_assignments_resource(self[c], event_id, Default(include_instructors, PyTrue),
                                    Default(include_team, PyTrue)), t)

pr_assignments_by_segment(c, Ids, Segs, F2, Ts) ==
    \E event_id \in Ids, segment_id \in Segs, flags \in F2, t \in Ts :
      LET include_instructors == flags[1]
          include_team == flags[2]
      IN
        ViaAuthenticated(c, "pr_assignments_by_segment", <<event_id, segment_id>>,
            <<include_instructors, include_team>>,
            pr_assignments_by_segment_resource(self[c], event_id, segment_id,
                Default(include_instructors, PyTrue), Default(include_team, PyTrue)), t)

pr_member(c, Ids, F2, Ts) ==
    \E member_id \in Ids, flags \in F2, t \in Ts :
      LET include_questions == flags[1]
          include_history == flags[2]
      IN
        ViaAuthenticated(c, "pr_member", <<member_id>>,
            <<include_questions, include_history>>,
            pr_member_resource(self[c], member_id, Default(include_questions, PyTrue),
                               Default(include_history, PyTrue)), t)

pr_post_logbook_entry(c, Ps, Ts) ==
    \E payload \in Ps, t \in Ts :
        Finish(c, "pr_post_logbook_entry", << >>, << >>, <<payload>>,
               post_attempts(post_request(self[c], pr_post_logbook_entry_resource(self[c]),
                                          payload), t),
               t, post_result(t))

(***************************************************************************)
(* Specifications.                                                          *)
(***************************************************************************)
\* both instances are built with the same constructor arguments
Init ==
    \E args \in CtorArgs :
      LET organization_id == args[1]
          username == args[2]
          password == args[3]
      IN
        /\ ctor = [c \in Clients |-> [organization_id |-> organization_id,
                                      username |-> username, password |-> password]]
        /\ self = [c \in Clients |-> MSRAPi(organization_id, username, password)]
        /\ call = [c \in Clients |-> NoCall]
        /\ sent = [c \in Clients |-> << >>]
        /\ got = [c \in Clients |-> NoAnswer]
        /\ result = [c \in Clients |-> NoResult]
        /\ ncalls = [c \in Clients |-> 0]
        /\ nsent = [c \in Clients |-> 0]

\* any method of instance c, with arguments from the given sets
Method(c, Ids, Segs, F1, F2, Ps, Ts) ==
    \/ public_calendar(c, Ids, Ts)
    \/ pr_calendar(c, Ts)
    \/ pr_venue_calendar(c, Ids, Ts)
    \/ pr_calendar_by_type(c, Ids, Ts)
    \/ pr_attendees(c, Ids, F1, Ts)
    \/ pr_assignments(c, Ids, F2, Ts)
    \/ pr_assignments_by_segment(c, Ids, Segs, F2, Ts)
    \/ pr_event_segments(c, Ids, Ts)
    \/ pr_members(c, Ts)
    \/ pr_member(c, Ids, F2, Ts)
    \/ pr_profile(c, Ids, Ts)
    \/ pr_member_vehicles(c, Ids, Ts)
    \/ pr_member_vehicle(c, Ids, Ts)
    \/ pr_member_logbook(c, Ids, Ts)
    \/ pr_logbook_types(c, Ts)
    \/ pr_get_logbook_entry(c, Ids, Ts)
    \/ pr_post_logbook_entry(c, Ps, Ts)

\* one instance, every argument value
Next ==
    Method(1, IdVals, SegmentVals, OneFlag(FlagVals), TwoFlags(FlagVals), Payloads, Transport)

Spec == Init /\ [][Next]_vars

\* two instances, each called in any order with any outcome
PairTransport == { t \in Transport : t.status_code # 404 }

NextPair ==
    \E c \in Clients :
        Method(c, {42}, SegmentVals, {PyFalse}, {<<PyTrue, PyFalse>>},
               {<< <<"typeId", 3>> >>}, PairTransport)

SpecPair == Init /\ [][NextPair]_vars

(***************************************************************************)
(* What the properties read off a state.                                    *)
(***************************************************************************)
\* instance c has made a call
Made(c) == call[c].op # "__init__"

\* the base of every URL, as the service documents it
BaseUrl == "https://api.motorsportreg.com/rest/"

Booleans == {PyTrue, PyFalse}

TwoFlagOps == {"pr_assignments", "pr_assignments_by_segment", "pr_member"}

ReadOps ==
    {"public_calendar", "pr_calendar", "pr_venue_calendar", "pr_calendar_by_type",
     "pr_attendees", "pr_assignments", "pr_assignments_by_segment", "pr_event_segments",
     "pr_members", "pr_member", "pr_profile", "pr_member_vehicles", "pr_member_vehicle",
     "pr_member_logbook", "pr_logbook_types", "pr_get_logbook_entry"}

\* the URL of a call without its query string, written out from the endpoint table
PlainUrl(k) ==
    LET id(i) == ToString(k.ids[i])
    IN  CASE k.op = "public_calendar" -> BaseUrl \o "calendars/organization/" \o id(1) \o ".json"
          [] k.op = "pr_calendar" -> BaseUrl \o "calendars.json"
          [] k.op = "pr_venue_calendar" -> BaseUrl \o "calendars/venue/" \o id(1) \o ".json"
          [] k.op = "pr_calendar_by_type" -> BaseUrl \o "calendars/type/" \o id(1) \o ".json"
          [] k.op = "pr_attendees" -> BaseUrl \o "events/" \o id(1) \o "/attendees.json"
          [] k.op = "pr_assignments" -> BaseUrl \o "events/" \o id(1) \o "/assignments.json"
          [] k.op = "pr_assignments_by_segment" ->
                BaseUrl \o "events/" \o id(1) \o "/segments/" \o id(2) \o "/assignments.json"
          [] k.op = "pr_event_segments" -> BaseUrl \o "events/" \o id(1) \o "/segments.json"
          [] k.op = "pr_members" -> BaseUrl \o "members.json"
          [] k.op = "pr_member" -> BaseUrl \o "members/" \o id(1) \o ".json"
          [] k.op = "pr_profile" -> BaseUrl \o "profiles/" \o id(1) \o ".json"
          [] k.op = "pr_member_vehicles" -> BaseUrl \o "members/" \o id(1) \o "/vehicles.json"
          [] k.op = "pr_member_vehicle" ->
                BaseUrl \o "members/" \o id(1) \o "/vehicles/" \o id(2) \o ".json"
          [] k.op = "pr_member_logbook" -> BaseUrl \o "members/" \o id(1) \o "/logbook.json"
          [] k.op = "pr_logbook_types" -> BaseUrl \o "logbooks/types.json"
          [] k.op = "pr_get_logbook_entry" -> BaseUrl \o "logbooks/" \o id(1) \o ".json"
          [] k.op = "pr_post_logbook_entry" -> BaseUrl \o "logbooks.json"

\* the two field names of a two-flag operation, in their declared order
FieldNames(op) == IF op = "pr_member" THEN <<"questions", "history">> ELSE <<"instructors", "team">>

\* the query string that asks for the first and/or the second field
FieldsQuery(names, first, second) ==
    IF first /\ second THEN "?fields=" \o names[1] \o "," \o names[2]
    ELSE IF first THEN "?fields=" \o names[1]
    ELSE IF second THEN "?fields=" \o names[2]
    ELSE ""

\* the one request of the call instance c made last is to this URL
SentTo(c, url) == Len(sent[c]) = 1 /\ sent[c][1].url = url

(***************************************************************************)
(* C1: for pr_assignments, pr_assignments_by_segment and pr_member, every  *)
(* id and each of the four combinations of two boolean flags, the URL is   *)
(* the plain URL followed by ?fields=<first>,<second> (both True),         *)
(* ?fields=<first> (first only), ?fields=<second> (second only), or        *)
(* nothing at all, not even a ?, (neither).                                *)
(***************************************************************************)
C1_FlagCombinations ==
    \A c \in Clients :
        (call[c].op \in TwoFlagOps /\ call[c].flags[1] \in Booleans
                                   /\ call[c].flags[2] \in Booleans)
        => SentTo(c, PlainUrl(call[c])
                     \o FieldsQuery(FieldNames(call[c].op), call[c].flags[1] = PyTrue,
                                    call[c].flags[2] = PyTrue))

\* a segment-assignments call that asks for the team only
C1_Witness ==
    /\ call[1] = Call("pr_assignments_by_segment", <<7, 3>>, <<PyFalse, PyTrue>>, << >>)
    /\ SentTo(1, "https://api.motorsportreg.com/rest/events/7/segments/3/assignments.json?fields=team")

(***************************************************************************)
(* C2: every pr_* method sends HTTP Basic credentials equal to the         *)
(* constructor's username and password and an X-Organization-Id header     *)
(* equal to the constructor's organization_id; public_calendar sends no    *)
(* credentials and no such header, and its URL carries its own             *)
(* organization_id argument.                                                *)
(***************************************************************************)
C2_Authentication ==
    \A c \in Clients :
        Made(c) =>
            /\ Len(sent[c]) = 1
            /\ IF call[c].op = "public_calendar"
               THEN /\ sent[c][1].auth = << >>
                    /\ \A h \in sent[c][1].headers : h[1] # "X-Organization-Id"
                    /\ sent[c][1].url = BaseUrl \o "calendars/organization/"
                                            \o ToString(call[c].ids[1]) \o ".json"
               ELSE /\ sent[c][1].auth = <<ctor[c].username, ctor[c].password>>
                    /\ \A h \in sent[c][1].headers :
                           h[1] = "X-Organization-Id" => h[2] = ctor[c].organization_id
                    /\ \E h \in sent[c][1].headers : h[1] = "X-Organization-Id"

\* an authenticated write and a public read whose argument is not the stored id
C2_Witness ==
    \/ /\ call[1].op = "pr_post_logbook_entry"
       /\ sent[1][1].auth = <<"bob", "hunter2">>
       /\ <<"X-Organization-Id", "42">> \in sent[1][1].headers
    \/ /\ call[1] = Call("public_calendar", <<7>>, << >>, << >>)
       /\ ctor[1].organization_id = "42"
       /\ sent[1][1].headers = {}

(***************************************************************************)
(* C3: for every path-parameterized operation and every id, when no flag   *)
(* is requested the URL is exactly the base prefix, the operation's        *)
(* template with the ids in argument order, and .json, with nothing added. *)
(***************************************************************************)
C3_ExactUrl ==
    \A c \in Clients :
        (/\ call[c].op \in ReadOps
         /\ call[c].ids # << >>
         /\ \A i \in 1..Len(call[c].flags) : call[c].flags[i] = PyFalse)
        => SentTo(c, PlainUrl(call[c]))

\* a two-id operation with different ids
C3_Witness ==
    /\ call[1] = Call("pr_member_vehicle", <<42, 7>>, << >>, << >>)
    /\ SentTo(1, "https://api.motorsportreg.com/rest/members/42/vehicles/7.json")

(***************************************************************************)
(* C4: after any sequence of operations, succeeding or failing, the        *)
(* instance's organization_id, username, password and url_prefix equal the *)
(* values set at construction.                                              *)
(***************************************************************************)
C4_CredentialsImmutable ==
    \A c \in Clients :
        /\ self[c].organization_id = ctor[c].organization_id
        /\ self[c].username = ctor[c].username
        /\ self[c].password = ctor[c].password
        /\ self[c].url_prefix = BaseUrl

\* a second call that failed, after which the attributes are as built
C4_Witness ==
    /\ ncalls[1] = 2
    /\ result[1].kind = "raise"
    /\ call[1].op = "pr_post_logbook_entry"
    /\ self[1] = [organization_id |-> "42", username |-> "bob", password |-> "hunter2",
                  url_prefix |-> BaseUrl]

(***************************************************************************)
(* C5: pr_post_logbook_entry issues a POST to <base>logbooks.json whose    *)
(* body is the JSON serialization of the payload and whose content-type    *)
(* header is application/vnd.pukkasoft+json, and it returns the response   *)
(* object itself, not a decoded value, whatever its status or body.        *)
(***************************************************************************)
C5_PostLogbookEntry ==
    \A c \in Clients :
        call[c].op = "pr_post_logbook_entry" =>
            /\ Len(sent[c]) = 1
            /\ sent[c][1].method = "POST"
            /\ sent[c][1].url = "https://api.motorsportreg.com/rest/logbooks.json"
            /\ sent[c][1].data = <<JsonDumps(call[c].payload[1])>>
            /\ call[c].payload[1] = << <<"memberId", 7>>, <<"typeId", 2>> >>
                   => sent[c][1].data = <<"{\"memberId\": 7, \"typeId\": 2}">>
            /\ <<"content-type", "application/vnd.pukkasoft+json">> \in sent[c][1].headers
            /\ got[c].ok =>
                   result[c] = [kind |-> "return", exc |-> "", json |-> << >>,
                                resp |-> <<got[c]>>]

\* a POST of a two-member payload answered 404, and one answered with a body
\* that is not JSON
C5_Witness ==
    /\ call[1].op = "pr_post_logbook_entry"
    /\ result[1].kind = "return"
    /\ \/ sent[1][1].data = <<"{\"memberId\": 7, \"typeId\": 2}">> /\ got[1].status_code = 404
       \/ got[1].text = "<html>busy</html>"

(***************************************************************************)
(* C6: when the transport answers with a JSON document, every read         *)
(* operation returns exactly that document, decoded; and                   *)
(* pr_post_logbook_entry returns the response object unmodified.           *)
(***************************************************************************)
C6_PassThrough ==
    \A c \in Clients : \A d \in JsonDocs :
        (Made(c) /\ got[c].ok /\ IsJsonOf(got[c].text, d)) =>
            IF call[c].op \in ReadOps
            THEN result[c] = [kind |-> "return", exc |-> "", json |-> <<d>>, resp |-> << >>]
            ELSE result[c].kind = "return" /\ result[c].resp = <<got[c]>>
                     /\ result[c].json = << >>

\* a flagged read that returned the two-member document
C6_Witness ==
    /\ call[1].op = "pr_member" /\ call[1].flags = <<PyTrue, PyFalse>>
    /\ got[1].text = "{\"id\": 42, \"n\": 2}"
    /\ result[1].json = << << <<"id", 42>>, <<"n", 2>> >> >>

(***************************************************************************)
(* C7: a read operation never inspects the status code: a response that is *)
(* not 2xx and whose body is valid JSON is decoded and returned as an      *)
(* ordinary value, with no error raised and nothing of the status in it.   *)
(***************************************************************************)
C7_StatusIgnored ==
    \A c \in Clients :
        (/\ call[c].op \in ReadOps
         /\ got[c].ok
         /\ got[c].status_code \notin 200..299
         /\ \E d \in JsonDocs : IsJsonOf(got[c].text, d))
        => /\ result[c].kind = "return"
           /\ result[c].exc = ""
           /\ result[c].resp = << >>
           /\ Len(result[c].json) = 1
           /\ IsJsonOf(got[c].text, result[c].json[1])

\* a 404 whose error document came back as the value of an authenticated read
C7_Witness ==
    /\ call[1].op = "pr_get_logbook_entry"
    /\ got[1].status_code = 404
    /\ result[1] = [kind |-> "return", exc |-> "", json |-> << << <<"error", 404>> >> >>,
                    resp |-> << >>]

C9_CallsIndependent ==
    \A c1 \in Clients : \A c2 \in Clients :
        (Made(c1) /\ Made(c2) /\ ctor[c1] = ctor[c2] /\ call[c1] = call[c2])
        => sent[c1] = sent[c2]

\* the same call on both instances, the first call of one and the second of the
\* other, failing on one and succeeding on the other
C9_Witness ==
    /\ ncalls[1] = 1 /\ ncalls[2] = 2
    /\ call[1] = call[2]
    /\ call[1].op = "pr_member"
    /\ result[1].kind = "raise"
    /\ result[2].kind = "return"
    /\ sent[1] = sent[2] /\ Len(sent[1]) = 1

(***************************************************************************)
(* C10: for pr_attendees, pr_assignments, pr_assignments_by_segment and    *)
(* pr_member, with flags that are any of True, False, None, 1, 0 or left   *)
(* out (a flag left out is True): a field is named in the fields parameter *)
(* if and only if its own flag is exactly True, whatever the other flag.   *)
(***************************************************************************)
C10_FlagsIndependent ==
    \A c \in Clients :
        /\ call[c].op = "pr_attendees" =>
               SentTo(c, PlainUrl(call[c])
                         \o FieldsQuery(<<"questions", "">>,
                                        call[c].flags[1] \in {PyTrue, Omitted}, FALSE))
        /\ call[c].op \in TwoFlagOps =>
               SentTo(c, PlainUrl(call[c])
                         \o FieldsQuery(FieldNames(call[c].op),
                                        call[c].flags[1] \in {PyTrue, Omitted},
                                        call[c].flags[2] \in {PyTrue, Omitted}))

====
